---- MODULE Spec2Model ----
(***************************************************************************)
(* A model of rmmvlt (src/rmmvlt.py): extraction of translatable strings   *)
(* from an RPG Maker MV project into a translation map, the merge of       *)
(* translations from a spreadsheet, and the patch of the project files.    *)
(*                                                                         *)
(* Strings are sequences of atoms.  An atom is a one-character string      *)
(* ("0".."9", ".", "|", "N", "o", "n", "e") or a word ("Hello", "name")    *)
(* that stands for a fixed run of characters holding no digit, no "." and  *)
(* no "|".  JSON documents are tagged trees (null, num, str, seq, map).    *)
(***************************************************************************)
EXTENDS Integers, Sequences, FiniteSets, TLC

VARIABLES
    disk,             \* project files: file path -> parsed JSON document
    strings,          \* the persisted translation map file (rmmvlt.json)
    pc,               \* position of the command that is running
    translation_map,  \* the running command's in-memory translation map
    df,               \* import: the rows of the sheet not yet merged
    seen,             \* import: the rows of the sheet merged so far
    processed,        \* import: the counter `processed`
    skipped,          \* import: the counter `skipped`
    warnings,         \* import: fingerprints printed as "not found in map"
    file_patches,     \* patch: the files still to patch, with their patches
    cur,              \* patch: the file being patched
    data,             \* patch: the document loaded by patch_file
    todo,             \* patch: the patches of cur not yet applied
    opens,            \* patch: log of open() calls on project files
    run,              \* patch: per-file record of the current/last patch run
    reported,         \* patch: the error main printed, or NoError
    exit_status,      \* exit status of the command that ended last
    pre,              \* history: disk when the patch run began
    origin,           \* history: disk as the last extraction read it
    edits,            \* number of project edits made outside the tool
    cmds,             \* number of commands started
    probe             \* two calls of generate_fingerprint: arguments and results

vars == <<disk, strings, pc, translation_map, df, seen, processed, skipped, warnings,
          file_patches, cur, data, todo, opens, run, reported, exit_status,
          pre, origin, edits, cmds, probe>>

----------------------------------------------------------------------------
(* Bounds of the model *)

\* commands (init, import, patch) run in one behaviour
MaxCmds == 3
\* edits of the project made outside the tool in one behaviour
MaxEdits == 1

\* calls of process_string on one processor
MaxRecords == 3

----------------------------------------------------------------------------
(* Python strings *)

Digit == {"0", "1", "2", "3", "4", "5", "6", "7", "8", "9"}

DigitVal(c) ==
    CASE c = "0" -> 0 [] c = "1" -> 1 [] c = "2" -> 2 [] c = "3" -> 3
      [] c = "4" -> 4 [] c = "5" -> 5 [] c = "6" -> 6 [] c = "7" -> 7
      [] c = "8" -> 8 [] c = "9" -> 9

DigitChar(n) ==
    CASE n = 0 -> "0" [] n = 1 -> "1" [] n = 2 -> "2" [] n = 3 -> "3"
      [] n = 4 -> "4" [] n = 5 -> "5" [] n = 6 -> "6" [] n = 7 -> "7"
      [] n = 8 -> "8" [] n = 9 -> "9"

\* str.isdigit(): non-empty and every character a digit
isdigit(s) == Len(s) > 0 /\ \A i \in 1..Len(s) : s[i] \in Digit

\* int(s) for a string of digits: leading zeros are dropped ("001" -> 1)
RECURSIVE int(_)
int(s) ==
    IF s = <<>> THEN 0
    ELSE int(SubSeq(s, 1, Len(s) - 1)) * 10 + DigitVal(s[Len(s)])

\* str(n) / f"{n}" for a non-negative integer
RECURSIVE IntStr(_)
IntStr(n) ==
    IF n < 10 THEN <<DigitChar(n)>>
    ELSE IntStr(n \div 10) \o <<DigitChar(n % 10)>>

\* s.split('.')
RECURSIVE split(_)
split(s) ==
    IF s = <<>> THEN << <<>> >>
    ELSE LET r == split(Tail(s))
         IN  IF Head(s) = "." THEN << <<>> >> \o r
             ELSE << <<Head(s)>> \o r[1] >> \o Tail(r)

\* sep.join(components)
RECURSIVE join(_, _)
join(sep, components) ==
    IF components = <<>> THEN <<>>
    ELSE IF Len(components) = 1 THEN components[1]
    ELSE components[1] \o sep \o join(sep, Tail(components))

\* a context path built by an f-string: segments joined with "."
DotPath(segments) == join(<<".">>, segments)

\* Optional[str]: None, or a string
None == <<>>
Some(s) == <<s>>

\* str(x) for an Optional[str]
pystr(x) == IF x = None THEN <<"N", "o", "n", "e">> ELSE x[1]

Range(s) == {s[i] : i \in 1..Len(s)}

----------------------------------------------------------------------------
(* Fingerprints *)

\* hashlib.sha256(...).hexdigest()[:16], modelled as injective on its input
sha256_16(fingerprint_string) == <<"sha">> \o fingerprint_string

generate_fingerprint(text, file_path, context_path, event_id, map_id) ==
    LET components == <<text, file_path, context_path,
                        pystr(event_id), pystr(map_id)>>
        fingerprint_string == join(<<"|", "|">>, components)
    IN  sha256_16(fingerprint_string)

----------------------------------------------------------------------------
(* JSON documents *)

Null == [k |-> "null"]
Num(n) == [k |-> "num", n |-> n]
Str(s) == [k |-> "str", s |-> s]
List(items) == [k |-> "seq", items |-> items]
Dict(fields) == [k |-> "map", fields |-> fields]

\* a dict key: a string, or an int (only a path write can add an int key;
\* it is kept apart from every string key by the marker atom "#int")
IntKey(n) == <<"#int">> \o IntStr(n)
IsIntKey(key) == Len(key) > 0 /\ key[1] = "#int"

\* a path component after `if comp.isdigit(): comp = int(comp)`
Component(comp) ==
    IF isdigit(comp) THEN [int |-> TRUE, n |-> int(comp), s |-> <<>>]
    ELSE [int |-> FALSE, n |-> 0, s |-> comp]

DictKey(c) == IF c.int THEN IntKey(c.n) ELSE c.s

Ok(v) == [ok |-> TRUE, err |-> "", v |-> v]
Raise(err) == [ok |-> FALSE, err |-> err, v |-> Null]

\* number of characters of a string, counting a word atom as two (every word
\* of the model is longer; the count only decides which error a descent into
\* a string raises, and such a path write raises one in every case)
AtomLen(a) == IF a \in Digit \cup {".", "|", "N", "o", "n", "e", "a", "?"} THEN 1 ELSE 2
RECURSIVE StrLen(_)
StrLen(s) == IF s = <<>> THEN 0 ELSE AtomLen(Head(s)) + StrLen(Tail(s))

\* target[comp] as an expression
GetItem(target, c) ==
    CASE target.k = "map" ->
           IF DictKey(c) \in DOMAIN target.fields
           THEN Ok(target.fields[DictKey(c)]) ELSE Raise("KeyError")
      [] target.k = "seq" ->
           IF ~c.int THEN Raise("TypeError")
           ELSE IF c.n >= Len(target.items) THEN Raise("IndexError")
           ELSE Ok(target.items[c.n + 1])
      [] target.k = "str" ->
           IF ~c.int THEN Raise("TypeError")
           ELSE IF c.n >= StrLen(target.s) THEN Raise("IndexError")
           ELSE Ok(Str(<<"?">>))        \* a one-character string
      [] OTHER -> Raise("TypeError")    \* int and None are not subscriptable

\* a mutant: an index past the end appends to the list
SetItem_Grow(target, c, v) ==
    CASE target.k = "map" ->
           Ok(Dict([x \in DOMAIN target.fields \cup {DictKey(c)} |->
                      IF x = DictKey(c) THEN v ELSE target.fields[x]]))
      [] target.k = "seq" ->
           IF ~c.int THEN Raise("TypeError")
           ELSE IF c.n >= Len(target.items) THEN Ok(List(Append(target.items, v)))
           ELSE Ok(List([target.items EXCEPT ![c.n + 1] = v]))
      [] OTHER -> Raise("TypeError")

\* target[comp] = v
SetItem(target, c, v) ==
    CASE target.k = "map" ->
           Ok(Dict([x \in DOMAIN target.fields \cup {DictKey(c)} |->
                      IF x = DictKey(c) THEN v ELSE target.fields[x]]))
      [] target.k = "seq" ->
           IF ~c.int THEN Raise("TypeError")
           ELSE IF c.n >= Len(target.items) THEN Raise("IndexError")
           ELSE Ok(List([target.items EXCEPT ![c.n + 1] = v]))
      [] OTHER -> Raise("TypeError")    \* str, int and None take no assignment

\* the document with the child the descent `target[comp]` reached replaced
ReplaceChild(target, c, child) ==
    IF target.k = "map"
    THEN Dict([target.fields EXCEPT ![DictKey(c)] = child])
    ELSE List([target.items EXCEPT ![c.n + 1] = child])

\* the body of patch_file's loop for one (path, new_text): the descent
\* along components[:-1] and the assignment at components[-1]
RECURSIVE WriteAt(_, _, _)
WriteAt(target, components, new_text) ==
    IF Len(components) = 1
    THEN SetItem(target, Component(components[1]), new_text)
    ELSE LET c == Component(components[1])
             g == GetItem(target, c)
         IN  IF ~g.ok THEN g
             ELSE LET w == WriteAt(g.v, Tail(components), new_text)
                  IN  IF ~w.ok THEN w
                      ELSE IF target.k = "str" THEN Raise("TypeError")
                      ELSE Ok(ReplaceChild(target, c, w.v))

PathWrite(doc, path, new_text) == WriteAt(doc, split(path), Str(new_text))

\* json.dump then json.load: an int key is written as its decimal string
\* and, written after the string keys, wins over an equal string key
RECURSIVE json_roundtrip(_)
json_roundtrip(node) ==
    CASE node.k = "seq" ->
           List([i \in 1..Len(node.items) |-> json_roundtrip(node.items[i])])
      [] node.k = "map" ->
           LET keys == {IF IsIntKey(x) THEN Tail(x) ELSE x : x \in DOMAIN node.fields}
               src(key) == IF <<"#int">> \o key \in DOMAIN node.fields
                           THEN <<"#int">> \o key ELSE key
           IN  Dict([key \in keys |-> json_roundtrip(node.fields[src(key)])])
      [] OTHER -> node

----------------------------------------------------------------------------
(* The project: its files and the documents they may hold *)

MapFile == <<"data/", "Map", "0", "0", "1", ".json">>
ItemsFile == <<"data/", "Items", ".json">>
MiscFile == <<"rmmvlt_misc", ".json">>

NoFile == <<"no file">>

\* the strings file: absent, or holding a translation map
Absent == [exists |-> FALSE, tm |-> <<>>]
Saved(tm) == [exists |-> TRUE, tm |-> tm]

Key(name) == [int |-> FALSE, n |-> 0, s |-> <<name>>]
Idx(n) == [int |-> TRUE, n |-> n, s |-> <<>>]

Command(code, parameters) ==
    Dict(<<"code">> :> Num(code) @@ <<"parameters">> :> List(parameters))

\* a MapNNN.json: a display name and one event (events[0] is null) with one
\* page holding a Show Text command (401) and a Show Choices command (102)
MapDoc(displayName, text, choices) ==
    Dict(<<"displayName">> :> Str(displayName)
      @@ <<"events">> :> List(<<Null,
           Dict(<<"pages">> :> List(<<
             Dict(<<"list">> :> List(<<
               Command(401, <<Str(text)>>),
               Command(102, <<List([i \in 1..Len(choices) |-> Str(choices[i])])>>)
             >>)) >>)) >>))

\* an Items.json: items[0] is null
ItemsDoc(items) == List(<<Null>> \o items)
Item(name) == Dict(<<"name">> :> Str(name))

\* an rmmvlt_misc.json with one string; its id is a JSON string or number
MiscDoc(id, text) ==
    Dict(<<"misc_strings">> :> List(<<
           Dict(<<"id">> :> id @@ <<"text">> :> Str(text)) >>))

Documents(file) ==
    CASE file = MapFile ->
           { MapDoc(<<"Town">>, <<"Hello">>, <<<<"Yes">>>>),
             MapDoc(<<"Town">>, <<"Hello">>, <<>>) }
      [] file = ItemsFile ->
           { ItemsDoc(<<Item(<<"Potion">>)>>),
             ItemsDoc(<<Dict(<<>>)>>),
             ItemsDoc(<<>>) }
      [] file = MiscFile ->
           { MiscDoc(Str(<<"a">>), <<"Hi">>),
             MiscDoc(Num(1), <<"Hi">>) }

Files == {MapFile, ItemsFile, MiscFile}

\* the project before any command: every other document is one edit away
Project ==
    [f \in Files |->
       CASE f = MapFile -> MapDoc(<<"Town">>, <<"Hello">>, <<<<"Yes">>>>)
         [] f = ItemsFile -> ItemsDoc(<<Item(<<"Potion">>)>>)
         [] f = MiscFile -> MiscDoc(Str(<<"a">>), <<"Hi">>)]

\* the language of the import and patch commands (-l)
language == "fr"
\* what a translator may type into a row's translation cell; NaN is an empty cell
Bonjour == <<"Bonjour">>
NaN == <<"NaN">>
\* a fingerprint typed into the spreadsheet that no entry has
Bogus == <<"sha", "?">>

----------------------------------------------------------------------------
(* Extraction: LocalizationProcessor and the extract_from_* functions *)

RECURSIVE Flatten(_)
Flatten(ss) == IF Len(ss) = 0 THEN <<>> ELSE Head(ss) \o Flatten(Tail(ss))

Has(node, name) == node.k = "map" /\ <<name>> \in DOMAIN node.fields
Field(node, name) == node.fields[<<name>>]

\* truthiness of a JSON value (`if item and ...`)
Truthy(node) ==
    CASE node.k = "null" -> FALSE
      [] node.k = "num" -> node.n # 0
      [] node.k = "str" -> node.s # <<>>
      [] node.k = "seq" -> Len(node.items) > 0
      [] node.k = "map" -> DOMAIN node.fields # {}

\* f"{value}" of a JSON string or number
Format(node) == IF node.k = "num" THEN IntStr(node.n) ELSE node.s

\* one extracted string: its text and context path as the code records them,
\* and (loc, not part of the program's state) the node it was read from
Found(text, context_path, event_id, map_id, loc) ==
    [text |-> text, path |-> context_path, event_id |-> event_id,
     map_id |-> map_id, loc |-> loc]

Entry(fingerprint, text, file_path, context_path, event_id, map_id, loc) ==
    [fp |-> fingerprint,
     original |-> text,
     context |-> [file |-> file_path, path |-> context_path,
                  event_id |-> event_id, map_id |-> map_id],
     translations |-> {},      \* pairs <<language, text>>, one per language
     loc |-> loc]

Fingerprints(tm) == {tm[i].fp : i \in 1..Len(tm)}
Position(tm, fingerprint) == CHOOSE i \in 1..Len(tm) : tm[i].fp = fingerprint

\* a mutant: a string whose fingerprint is in the map is stored again, under
\* a key of its own
process_string_Again(tm, f, file_path) ==
    LET fingerprint == generate_fingerprint(f.text, file_path, f.path,
                                            f.event_id, f.map_id)
        again == IF fingerprint \in Fingerprints(tm)
                 THEN fingerprint \o <<"'">> ELSE fingerprint
    IN  Append(tm, Entry(again, f.text, file_path, f.path,
                         f.event_id, f.map_id, f.loc))

\* translation_map[fingerprint] = {...}: a new key is appended, an existing
\* key keeps its place and gets the new value
process_string(tm, f, file_path) ==
    LET fingerprint == generate_fingerprint(f.text, file_path, f.path,
                                            f.event_id, f.map_id)
        entry == Entry(fingerprint, f.text, file_path, f.path,
                       f.event_id, f.map_id, f.loc)
    IN  IF fingerprint \in Fingerprints(tm)
        THEN [tm EXCEPT ![Position(tm, fingerprint)] = entry]
        ELSE Append(tm, entry)

RECURSIVE process_strings(_, _, _)
process_strings(tm, found, file_path) ==
    IF found = <<>> THEN tm
    ELSE process_strings(process_string(tm, Head(found), file_path),
                         Tail(found), file_path)

\* map_file.stem[3:]
MapId(map_file) == SubSeq(map_file, 3, Len(map_file) - 1)

\* the strings of one event command (the body of the innermost loop)
FromCommand(item, prefix, loc, event_id, map_id) ==
    LET code == Field(item, "code").n
        parameters == Field(item, "parameters").items
    IN  IF code = 401
        THEN << Found(parameters[1].s,
                      DotPath(prefix \o <<<<"parameters">>, <<"0">>>>),
                      event_id, map_id,
                      loc \o <<Key("parameters"), Idx(0)>>) >>
        ELSE IF code = 102
        THEN [c \in 1..Len(parameters[1].items) |->
                Found(parameters[1].items[c].s,
                      DotPath(prefix \o <<<<"parameters">>, <<"0">>, IntStr(c - 1)>>),
                      event_id, map_id,
                      loc \o <<Key("parameters"), Idx(0), Idx(c - 1)>>)]
        ELSE <<>>

FromPage(page, prefix, loc, event_id, map_id) ==
    LET list == Field(page, "list").items
    IN  Flatten([l \in 1..Len(list) |->
                   FromCommand(list[l], prefix \o <<<<"list">>, IntStr(l - 1)>>,
                               loc \o <<Key("list"), Idx(l - 1)>>,
                               event_id, map_id)])

FromEvent(event, event_idx, map_id) ==
    IF event = Null THEN <<>>
    ELSE LET pages == Field(event, "pages").items
         IN  Flatten([p \in 1..Len(pages) |->
                FromPage(pages[p],
                         <<<<"events">>, IntStr(event_idx), <<"pages">>, IntStr(p - 1)>>,
                         <<Key("events"), Idx(event_idx), Key("pages"), Idx(p - 1)>>,
                         Some(IntStr(event_idx)), map_id)])

\* the strings process_map_files records from one map file
FromMap(doc, map_id) ==
    (IF Has(doc, "displayName")
     THEN << Found(Field(doc, "displayName").s,
                   DotPath(<<map_id, <<"displayName">>>>),
                   None, Some(map_id), <<Key("displayName")>>) >>
     ELSE <<>>)
    \o
    (IF ~Has(doc, "events") THEN <<>>
     ELSE LET events == Field(doc, "events").items
          IN  Flatten([e \in 1..Len(events) |->
                         FromEvent(events[e], e - 1, Some(map_id))]))

\* map_path.glob("Map???.json")
IsMapFile(file) ==
    /\ Len(file) = 6 /\ file[1] = "data/" /\ file[2] = "Map" /\ file[6] = ".json"

process_map_files(tm, project) ==
    IF MapFile \in DOMAIN project /\ IsMapFile(MapFile)
    THEN process_strings(tm, FromMap(project[MapFile], MapId(MapFile)), MapFile)
    ELSE tm

extract_from_items(doc) ==
    Flatten([i \in 1..Len(doc.items) |->
        LET item == doc.items[i]
            at(name) == Found(Field(item, name).s,
                              DotPath(<<IntStr(i - 1), <<name>>>>),
                              None, None, <<Idx(i - 1), Key(name)>>)
        IN  (IF Truthy(item) /\ Has(item, "name") THEN <<at("name")>> ELSE <<>>)
            \o
            (IF Truthy(item) /\ Has(item, "description")
             THEN <<at("description")>> ELSE <<>>)])

extract_from_misc(doc) ==
    IF ~Has(doc, "misc_strings") THEN <<>>
    ELSE LET items == Field(doc, "misc_strings").items
         IN  Flatten([i \in 1..Len(items) |->
                IF Has(items[i], "text") /\ Has(items[i], "id")
                THEN << Found(Field(items[i], "text").s,
                              <<"misc", ".">> \o Format(Field(items[i], "id")),
                              None, None,
                              <<Key("misc_strings"), Idx(i - 1), Key("text")>>) >>
                ELSE <<>>])

Extractor(kind, doc) ==
    IF kind = "items" THEN extract_from_items(doc) ELSE extract_from_misc(doc)

\* possible_paths inside the project: data/<file_name>, then <file_name>
possible_paths(file_name) == << <<"data/">> \o file_name, file_name >>

\* FileNotFoundError leaves the map as it is: extract_strings skips the file
process_custom_file(tm, project, file_name, kind) ==
    LET paths == possible_paths(file_name)
        there == {i \in 1..Len(paths) : paths[i] \in DOMAIN project}
    IN  IF there = {} THEN tm
        ELSE LET file_path == paths[CHOOSE i \in there : \A j \in there : i <= j]
             IN  process_strings(tm, Extractor(kind, project[file_path]), file_path)

\* the data files of extract_strings, but for System.json and
\* CommonEvents.json; the modelled projects hold only Items.json, and a
\* file that is not found is skipped
data_files ==
    << [file_name |-> <<"Items", ".json">>, kind |-> "items"],
       [file_name |-> <<"Weapons", ".json">>, kind |-> "items"],
       [file_name |-> <<"Armors", ".json">>, kind |-> "items"] >>

RECURSIVE process_data_files(_, _, _)
process_data_files(tm, project, files) ==
    IF files = <<>> THEN tm
    ELSE process_data_files(
           process_custom_file(tm, project, Head(files).file_name, Head(files).kind),
           project, Tail(files))

\* LocalizationProcessor.__init__: self.translation_map = {}
LocalizationProcessor(persisted) == <<>>

\* what extract_strings hands to save_translation_map
extract_all(persisted, project) ==
    LET maps == process_map_files(LocalizationProcessor(persisted), project)
        files == process_data_files(maps, project, data_files)
    IN  process_custom_file(files, project, <<"rmmvlt_misc", ".json">>, "misc")

\* save_translation_map: the file is opened with 'w' and rewritten whole
save_translation_map(tm) == Saved(tm)

----------------------------------------------------------------------------
(* Import: excel_to_translation_map *)

Translated(entry, lang) == \E p \in entry.translations : p[1] = lang
Translation(entry, lang) == (CHOOSE p \in entry.translations : p[1] = lang)[2]

\* translation_map[fingerprint]['translations'][language] = str(translated_text)
SetTranslation(tm, fingerprint, lang, text) ==
    LET i == Position(tm, fingerprint)
    IN  [tm EXCEPT ![i].translations =
            {p \in @ : p[1] # lang} \cup {<<lang, text>>}]

\* the state of the merge: the map, the counters, the warnings printed
Merge(tm, p, s, w) == [tm |-> tm, processed |-> p, skipped |-> s, warnings |-> w]

\* a mutant: the first unknown fingerprint ends the row's loop
RECURSIVE merge_fingerprints_Break(_, _, _)
merge_fingerprints_Break(m, fingerprints, text) ==
    IF fingerprints = <<>> THEN m
    ELSE LET fingerprint == Head(fingerprints)
         IN  IF fingerprint \in Fingerprints(m.tm)
             THEN merge_fingerprints_Break(
                    Merge(SetTranslation(m.tm, fingerprint, language, text),
                          m.processed + 1, m.skipped, m.warnings),
                    Tail(fingerprints), text)
             ELSE Merge(m.tm, m.processed, m.skipped + 1,
                        Append(m.warnings, fingerprint))

\* the loop `for fingerprint in fingerprints` of one row
RECURSIVE merge_fingerprints(_, _, _)
merge_fingerprints(m, fingerprints, text) ==
    IF fingerprints = <<>> THEN m
    ELSE LET fingerprint == Head(fingerprints)
         IN  IF fingerprint \in Fingerprints(m.tm)
             THEN merge_fingerprints(
                    Merge(SetTranslation(m.tm, fingerprint, language, text),
                          m.processed + 1, m.skipped, m.warnings),
                    Tail(fingerprints), text)
             ELSE merge_fingerprints(
                    Merge(m.tm, m.processed, m.skipped + 1,
                          Append(m.warnings, fingerprint)),
                    Tail(fingerprints), text)

\* one row of the sheet: `if pd.notna(translated_text)`
merge_row(m, r) ==
    IF r.text = NaN THEN m ELSE merge_fingerprints(m, r.fps, r.text)

\* the Fingerprint cells a sheet may hold, split on ';': one fingerprint of
\* the map or an unknown one, an unknown one followed by one of the map, or
\* the fingerprints of the map from some entry on
Cells(tm) ==
    {<<f>> : f \in Fingerprints(tm) \cup {Bogus}}
    \cup {<<Bogus, f>> : f \in Fingerprints(tm)}
    \cup {[i \in 1..(Len(tm) - n) |-> tm[n + i].fp] : n \in 0..(Len(tm) - 1)}

Row(fps, text) == [fps |-> fps, text |-> text]

\* the sheets an import may read: one row (translated, or its translation
\* cell empty), or two translated rows, the first for an unknown fingerprint
\* or for an earlier entry of the map than the second
Sheets(tm) ==
    {<<Row(c, Bonjour)>> : c \in Cells(tm)}
    \cup {<<Row(<<Bogus>>, NaN)>>}
    \cup {<<Row(<<Bogus>>, Bonjour), Row(<<f>>, Bonjour)>> : f \in Fingerprints(tm)}
    \cup {<<Row(<<tm[p[1]].fp>>, Bonjour), Row(<<tm[p[2]].fp>>, Bonjour)>> :
             p \in {q \in (1..Len(tm)) \X (1..Len(tm)) : q[1] < q[2]}}

----------------------------------------------------------------------------
(* Patch: LocalizationPatcher *)

Patch(path, text) == [path |-> path, text |-> text]

\* patches[context_path] = translated_text on an insertion-ordered dict
PutPatch(patches, path, text) ==
    IF \E i \in 1..Len(patches) : patches[i].path = path
    THEN [patches EXCEPT
            ![CHOOSE i \in 1..Len(patches) : patches[i].path = path].text = text]
    ELSE Append(patches, Patch(path, text))

\* a mutant: no grouping, every translated entry is a group of its own
AddPatch_Ungrouped(groups, file_path, path, text) ==
    Append(groups, [file |-> file_path, patches |-> <<Patch(path, text)>>])

\* file_patches[file_path][context_path] = translated_text
AddPatch(groups, file_path, path, text) ==
    IF \E i \in 1..Len(groups) : groups[i].file = file_path
    THEN LET i == CHOOSE j \in 1..Len(groups) : groups[j].file = file_path
         IN  [groups EXCEPT ![i].patches = PutPatch(@, path, text)]
    ELSE Append(groups, [file |-> file_path, patches |-> <<Patch(path, text)>>])

\* the first loop of patch_all_files
RECURSIVE group_patches(_, _)
group_patches(tm, groups) ==
    IF tm = <<>> THEN groups
    ELSE LET entry == Head(tm)
         IN  IF ~Translated(entry, language) THEN group_patches(Tail(tm), groups)
             ELSE group_patches(Tail(tm),
                    AddPatch(groups, entry.context.file, entry.context.path,
                             Translation(entry, language)))

\* "rmmvlt_misc.json" in file_path
IsMisc(file_path) ==
    \E i \in 1..(Len(file_path) - 1) :
        file_path[i] = "rmmvlt_misc" /\ file_path[i + 1] = ".json"

\* the body of patch_misc_file's loop for one (path, new_text): the first
\* item whose id equals path[5:] gets the text; no item, or a path that does
\* not start with "misc.", changes nothing
misc_write(doc, path, new_text) ==
    IF ~(Len(path) >= 2 /\ path[1] = "misc" /\ path[2] = ".") THEN Ok(doc)
    ELSE IF doc.k # "map" THEN Raise("AttributeError")
    ELSE IF ~Has(doc, "misc_strings") THEN Ok(doc)
    ELSE LET target_id == SubSeq(path, 3, Len(path))
             items == Field(doc, "misc_strings").items
             hits == {i \in 1..Len(items) :
                        /\ Has(items[i], "id")
                        /\ Field(items[i], "id") = Str(target_id)}
         IN  IF hits = {} THEN Ok(doc)
             ELSE LET i == CHOOSE h \in hits : \A j \in hits : h <= j
                      item == SetItem(items[i], Key("text"), Str(new_text)).v
                  IN  Ok(Dict([doc.fields EXCEPT ![<<"misc_strings">>] =
                                 List([items EXCEPT ![i] = item])]))

\* one (path, new_text) of the file being patched
apply_patch(file_path, doc, patch) ==
    IF IsMisc(file_path) THEN misc_write(doc, patch.path, patch.text)
    ELSE PathWrite(doc, patch.path, patch.text)

NoError == ""

FileRun(patches) == [patches |-> patches, applied |-> 0, state |-> "pending"]

Ended(cmd, code) == [cmd |-> cmd, code |-> code]

----------------------------------------------------------------------------
(* Calls of generate_fingerprint on its own *)

NoPrint == <<>>
Args(text, file_path, context_path, event_id, map_id) ==
    [text |-> text, file_path |-> file_path, context_path |-> context_path,
     event_id |-> event_id, map_id |-> map_id]
Probe(a, b) == [a |-> a, b |-> b, fa |-> NoPrint, fb |-> NoPrint]
NoProbe == Probe(Args(<<>>, <<>>, <<>>, None, None), Args(<<>>, <<>>, <<>>, None, None))

\* the arguments the calls are drawn from
ProbeIds == {None, Some(<<"0">>), Some(<<"0", "0", "1">>), Some(<<"N", "o", "n", "e">>)}
ProbeArgs ==
    {Args(t, f, p, e, m) :
        t \in {<<"Hello">>, <<>>},
        f \in {MapFile, ItemsFile},
        p \in {<<"0", "0", "1", ".", "displayName">>, <<"1", ".", "name">>},
        e \in ProbeIds \ {Some(<<"0", "0", "1">>)},
        m \in ProbeIds \ {Some(<<"0">>)}}

Fingerprint(x) ==
    generate_fingerprint(x.text, x.file_path, x.context_path, x.event_id, x.map_id)

----------------------------------------------------------------------------
(* The commands *)

ImportVars == <<df, seen, processed, skipped, warnings>>
PatchVars == <<file_patches, cur, data, todo, opens, run, reported, pre>>

\* no import is running, no patch run is recorded
NoImport == df = <<>> /\ seen = <<>> /\ processed = 0 /\ skipped = 0 /\ warnings = <<>>
NoPatch ==
    /\ file_patches = <<>> /\ cur = NoFile /\ data = Null /\ todo = <<>>
    /\ opens = <<>> /\ run = <<>> /\ reported = NoError

\* the locals of an import, and those of a patch run, are reset
ResetImport == df' = <<>> /\ seen' = <<>> /\ processed' = 0 /\ skipped' = 0 /\ warnings' = <<>>
ResetPatch ==
    /\ file_patches' = <<>> /\ cur' = NoFile /\ data' = Null /\ todo' = <<>>
    /\ opens' = <<>> /\ run' = <<>> /\ reported' = NoError

Init ==
    /\ disk = Project
    /\ strings = Absent
    /\ pc = "idle"
    /\ translation_map = <<>>
    /\ NoImport /\ NoPatch
    /\ exit_status = Ended("none", 0)
    /\ pre = disk /\ origin = disk
    /\ edits = 0 /\ cmds = 0
    /\ probe = NoProbe

\* the project is changed outside the tool, between two commands; the exit
\* status of the command that ended before the change is forgotten
EditProject ==
    /\ pc = "idle" /\ edits < MaxEdits
    /\ \E f \in DOMAIN disk : \E d \in Documents(f) :
          /\ d # disk[f]
          /\ disk' = [disk EXCEPT ![f] = d]
    /\ edits' = edits + 1
    /\ exit_status' = Ended("none", 0)
    /\ UNCHANGED <<strings, pc, translation_map, ImportVars, PatchVars,
                   origin, cmds>>
    /\ UNCHANGED probe

\* rmmvlt init: extract_strings
extract_strings ==
    /\ pc = "idle" /\ cmds < MaxCmds
    /\ cmds' = cmds + 1
    /\ translation_map' = extract_all(strings, disk)
    /\ strings' = save_translation_map(translation_map')
    /\ origin' = disk /\ pre' = disk
    /\ exit_status' = Ended("init", 0)
    /\ ResetImport /\ ResetPatch
    /\ UNCHANGED <<disk, pc, edits>>
    /\ UNCHANGED probe

\* rmmvlt import: the strings file is loaded; without one the command ends
\* with an uncaught FileNotFoundError
ImportStart ==
    /\ pc = "idle" /\ cmds < MaxCmds
    /\ cmds' = cmds + 1
    /\ seen' = <<>> /\ processed' = 0 /\ skipped' = 0 /\ warnings' = <<>>
    /\ ResetPatch /\ pre' = disk
    /\ IF strings.exists
       THEN /\ translation_map' = strings.tm
            /\ df' \in Sheets(strings.tm)
            /\ pc' = "import"
            /\ exit_status' = Ended("running", 0)
       ELSE /\ exit_status' = Ended("crash", 1)
            /\ translation_map' = <<>> /\ df' = <<>>
            /\ UNCHANGED pc
    /\ UNCHANGED <<disk, strings, origin, edits>>
    /\ UNCHANGED probe

\* one iteration of `for _, row in df.iterrows()`
ImportRow ==
    /\ pc = "import" /\ df # <<>>
    /\ LET m == merge_row(Merge(translation_map, processed, skipped, warnings),
                          Head(df))
       IN  /\ seen' = Append(seen, Head(df))
           /\ df' = Tail(df)
           /\ translation_map' = m.tm
           /\ processed' = m.processed
           /\ skipped' = m.skipped
           /\ warnings' = m.warnings
    /\ UNCHANGED <<disk, strings, pc, PatchVars, exit_status, origin, edits, cmds>>
    /\ UNCHANGED probe

\* the sheet is exhausted: the map is written to the strings file and the
\* function returns (its locals are gone)
ImportEnd ==
    /\ pc = "import" /\ df = <<>>
    /\ strings' = save_translation_map(translation_map)
    /\ pc' = "idle"
    /\ exit_status' = Ended("import", 0)
    /\ ResetImport
    /\ UNCHANGED <<disk, translation_map, PatchVars, origin, edits, cmds>>
    /\ UNCHANGED probe

\* rmmvlt patch: LocalizationPatcher.__init__ loads the strings file (outside
\* main's try), then patch_all_files groups the translations by file
PatchStart ==
    /\ pc = "idle" /\ cmds < MaxCmds
    /\ cmds' = cmds + 1
    /\ cur' = NoFile /\ data' = Null /\ todo' = <<>> /\ opens' = <<>>
    /\ reported' = NoError /\ pre' = disk
    /\ IF strings.exists
       THEN /\ translation_map' = strings.tm
            /\ file_patches' = group_patches(strings.tm, <<>>)
            /\ run' = [f \in {file_patches'[i].file : i \in 1..Len(file_patches')} |->
                         FileRun((CHOOSE g \in Range(file_patches') : g.file = f).patches)]
            /\ pc' = "next_file"
            /\ exit_status' = Ended("running", 0)
       ELSE /\ exit_status' = Ended("crash", 1)
            /\ file_patches' = <<>> /\ run' = <<>>
            /\ translation_map' = <<>>
            /\ UNCHANGED pc
    /\ UNCHANGED <<disk, strings, ImportVars, origin, edits>>
    /\ UNCHANGED probe

\* an exception leaves patch_all_files; main prints it and returns
Fail(err) ==
    /\ reported' = err
    /\ run' = [run EXCEPT ![cur'].state = "failed"]
    /\ pc' = "idle"
    /\ exit_status' = Ended("patch", 0)

\* patch_file / patch_misc_file: open(file_path) and json.load
PatchOpen ==
    /\ pc = "next_file" /\ file_patches # <<>>
    /\ cur' = Head(file_patches).file
    /\ file_patches' = Tail(file_patches)
    /\ opens' = Append(opens, [file |-> cur', mode |-> "r", applied |-> 0])
    /\ IF cur' \in DOMAIN disk
       THEN /\ data' = disk[cur']
            /\ todo' = Head(file_patches).patches
            /\ run' = [run EXCEPT ![cur'].state = "loaded"]
            /\ pc' = "writing"
            /\ UNCHANGED <<reported, exit_status>>
       ELSE /\ Fail("FileNotFoundError")
            /\ UNCHANGED <<data, todo>>
    /\ UNCHANGED <<disk, strings, translation_map, ImportVars, pre, origin,
                   edits, cmds>>
    /\ UNCHANGED probe

\* a mutant: the file is written after every path write, not after the loop
PatchWrite_SaveEach ==
    /\ pc = "writing" /\ todo # <<>>
    /\ LET w == apply_patch(cur, data, Head(todo))
       IN  IF w.ok
           THEN /\ data' = w.v
                /\ todo' = Tail(todo)
                /\ run' = [run EXCEPT ![cur].applied = @ + 1]
                /\ disk' = [disk EXCEPT ![cur] = json_roundtrip(w.v)]
                /\ UNCHANGED <<pc, reported, exit_status, cur>>
           ELSE /\ cur' = cur
                /\ Fail(w.err)
                /\ UNCHANGED <<data, todo, disk>>
    /\ UNCHANGED <<strings, translation_map, ImportVars, file_patches,
                   opens, pre, origin, edits, cmds>>
    /\ UNCHANGED probe

\* one iteration of `for path, new_text in patches.items()`
PatchWrite ==
    /\ pc = "writing" /\ todo # <<>>
    /\ LET w == apply_patch(cur, data, Head(todo))
       IN  IF w.ok
           THEN /\ data' = w.v
                /\ todo' = Tail(todo)
                /\ run' = [run EXCEPT ![cur].applied = @ + 1]
                /\ UNCHANGED <<pc, reported, exit_status, cur>>
           ELSE /\ cur' = cur
                /\ Fail(w.err)
                /\ UNCHANGED <<data, todo>>
    /\ UNCHANGED <<disk, strings, translation_map, ImportVars, file_patches,
                   opens, pre, origin, edits, cmds>>
    /\ UNCHANGED probe

\* open(file_path, 'w') and json.dump, after the loop
PatchSave ==
    /\ pc = "writing" /\ todo = <<>>
    /\ opens' = Append(opens, [file |-> cur, mode |-> "w",
                               applied |-> run[cur].applied])
    /\ disk' = [disk EXCEPT ![cur] = json_roundtrip(data)]
    /\ run' = [run EXCEPT ![cur].state = "saved"]
    /\ pc' = "next_file"
    /\ UNCHANGED <<strings, translation_map, ImportVars, file_patches, cur, data,
                   todo, reported, exit_status, pre, origin, edits, cmds>>
    /\ UNCHANGED probe

\* patch_all_files returns: print_success("patching complete!")
PatchDone ==
    /\ pc = "next_file" /\ file_patches = <<>>
    /\ pc' = "idle"
    /\ exit_status' = Ended("patch", 0)
    /\ UNCHANGED <<disk, strings, translation_map, ImportVars, PatchVars,
                   origin, edits, cmds>>
    /\ UNCHANGED probe

Next ==
    \/ EditProject
    \/ extract_strings
    \/ ImportStart
    \/ ImportRow
    \/ ImportEnd
    \/ PatchStart
    \/ PatchOpen
    \/ PatchWrite
    \/ PatchSave
    \/ PatchDone

Spec == Init /\ [][Next]_vars

----------------------------------------------------------------------------
(* generate_fingerprint called twice, on arguments drawn from ProbeArgs *)

PipelineVars ==
    <<disk, strings, pc, translation_map, ImportVars, PatchVars, exit_status,
      origin, edits, cmds>>

InitFP ==
    /\ disk = Project
    /\ strings = Absent
    /\ pc = "idle"
    /\ translation_map = <<>>
    /\ NoImport /\ NoPatch
    /\ exit_status = Ended("none", 0)
    /\ pre = disk /\ origin = disk
    /\ edits = 0 /\ cmds = 0
    /\ probe \in {Probe(a, b) : a \in ProbeArgs, b \in ProbeArgs}

FingerprintFirst ==
    /\ probe.fa = NoPrint
    /\ probe' = [probe EXCEPT !.fa = Fingerprint(probe.a)]
    /\ UNCHANGED PipelineVars

FingerprintSecond ==
    /\ probe.fb = NoPrint
    /\ probe' = [probe EXCEPT !.fb = Fingerprint(probe.b)]
    /\ UNCHANGED PipelineVars

NextFP ==
    \/ FingerprintFirst
    \/ FingerprintSecond

SpecFP == InitFP /\ [][NextFP]_vars

----------------------------------------------------------------------------
(* generate_fingerprint called twice on strings of rmmvlt_misc.json, whose
   texts and ids may hold any characters, '|' included *)

Bar == <<"|", "|">>

\* f"misc.{item['id']}"
MiscPath(id) == <<"misc", ".">> \o id

\* the texts and ids of the misc strings
JoinTexts ==
    {<<"a">>, <<"b">>, <<"a">> \o Bar \o MiscFile \o Bar \o MiscPath(<<"Z">>)}
JoinIds ==
    {<<"c">>, <<"Z">>, <<"Z">> \o Bar \o MiscFile \o Bar \o MiscPath(<<"c">>)}

\* the arguments process_custom_file passes for them (no event id, no map
\* id), and those of a map's text of event 1
JoinArgs ==
    {Args(t, MiscFile, MiscPath(id), None, None) : t \in JoinTexts, id \in JoinIds}
    \cup {Args(t, MapFile, DotPath(<<<<"events">>, <<"1">>>>), Some(<<"1">>),
               Some(<<"0", "0", "1">>)) : t \in JoinTexts}

InitJoin ==
    /\ disk = Project
    /\ strings = Absent
    /\ pc = "idle"
    /\ translation_map = <<>>
    /\ NoImport /\ NoPatch
    /\ exit_status = Ended("none", 0)
    /\ pre = disk /\ origin = disk
    /\ edits = 0 /\ cmds = 0
    /\ probe \in {Probe(a, b) : a \in JoinArgs, b \in JoinArgs}

SpecJoin == InitJoin /\ [][NextFP]_vars

----------------------------------------------------------------------------
(* process_string called on a processor, and extraction run again, on a
   project that nobody edits *)

\* the projects an extraction may find
Projects ==
    {p \in [Files -> UNION {Documents(f) : f \in Files}] :
        \A f \in Files : p[f] \in Documents(f)}

\* the arguments process_string is called with: the displayName of the map,
\* as process_map_files passes it or with other ids
RecordArgs ==
    {Args(<<"Town">>, MapFile, <<"0", "0", "1", ".", "displayName">>, e, m) :
        e \in {None, Some(<<"N", "o", "n", "e">>)},
        m \in {None, Some(<<"N", "o", "n", "e">>), Some(<<"0", "0", "1">>)}}

InitRec ==
    /\ disk \in Projects
    /\ strings = Absent
    /\ pc = "idle"
    /\ translation_map = <<>>
    /\ NoImport /\ NoPatch
    /\ exit_status = Ended("none", 0)
    /\ pre = disk /\ origin = disk
    /\ edits = 0 /\ cmds = 0
    /\ probe = NoProbe

\* processor.process_string(text, file_path, context_path, event_id, map_id)
\* on the processor of the last extraction (or on a new one)
RecordString ==
    /\ Len(seen) < MaxRecords
    /\ \E x \in RecordArgs :
          /\ translation_map' =
                process_string(translation_map,
                               Found(x.text, x.context_path, x.event_id, x.map_id, <<>>),
                               x.file_path)
          /\ seen' = Append(seen, x)
    /\ UNCHANGED <<disk, strings, pc, df, processed, skipped, warnings, PatchVars,
                   exit_status, origin, edits, cmds, probe>>

\* rmmvlt init on the project, with a processor of its own
ExtractAgain ==
    /\ cmds < MaxCmds
    /\ cmds' = cmds + 1
    /\ translation_map' = extract_all(strings, disk)
    /\ strings' = save_translation_map(translation_map')
    /\ seen' = <<>>
    /\ exit_status' = Ended("init", 0)
    /\ UNCHANGED <<disk, pc, df, processed, skipped, warnings, PatchVars,
                   origin, edits, probe>>

NextRec ==
    \/ RecordString
    \/ ExtractAgain

SpecRec == InitRec /\ [][NextRec]_vars

----------------------------------------------------------------------------
(* What the claims speak of *)

Missing == [k |-> "missing"]

\* the node of a document at a place given by keys and indices
RECURSIVE ReadLoc(_, _)
ReadLoc(doc, loc) ==
    IF loc = <<>> THEN doc
    ELSE LET c == Head(loc)
         IN  IF c.int
             THEN IF doc.k = "seq" /\ c.n < Len(doc.items)
                  THEN ReadLoc(doc.items[c.n + 1], Tail(loc)) ELSE Missing
             ELSE IF doc.k = "map" /\ c.s \in DOMAIN doc.fields
                  THEN ReadLoc(doc.fields[c.s], Tail(loc)) ELSE Missing

\* the document with the node at that place replaced, and nothing else
RECURSIVE PutLoc(_, _, _)
PutLoc(doc, loc, v) ==
    IF loc = <<>> THEN v
    ELSE LET c == Head(loc)
         IN  IF ReadLoc(doc, <<c>>) = Missing THEN doc
             ELSE IF c.int
             THEN List([doc.items EXCEPT ![c.n + 1] = PutLoc(@, Tail(loc), v)])
             ELSE Dict([doc.fields EXCEPT ![c.s] = PutLoc(@, Tail(loc), v)])

\* the place a context path addresses: a segment of digits is a sequence
\* index, any other segment a mapping key
Locate(path) == [i \in 1..Len(split(path)) |-> Component(split(path)[i])]

\* the text of the misc string whose id the path "misc.<id>" names
MiscText(doc, path) ==
    IF ~Has(doc, "misc_strings") THEN Missing
    ELSE LET items == Field(doc, "misc_strings").items
             hits == {i \in 1..Len(items) :
                        /\ Has(items[i], "id") /\ Has(items[i], "text")
                        /\ <<"misc", ".">> \o Format(Field(items[i], "id")) = path}
         IN  IF hits = {} THEN Missing
             ELSE Field(items[CHOOSE h \in hits : \A j \in hits : h <= j], "text")

\* the value a file's document holds at the place a patch addresses
Addressed(file_path, doc, path) ==
    IF IsMisc(file_path) THEN MiscText(doc, path) ELSE ReadLoc(doc, Locate(path))

\* a patch run has ended (main has returned) and the project is as it left it
PatchEnded == pc = "idle" /\ exit_status.cmd = "patch"
Failed == {f \in DOMAIN run : run[f].state = "failed"}

\* the document with every translated entry of the file put at the place the
\* extraction read it from
RECURSIVE Expected(_, _, _)
Expected(doc, file_path, tm) ==
    IF tm = <<>> THEN doc
    ELSE LET entry == Head(tm)
         IN  IF entry.context.file = file_path /\ Translated(entry, language)
             THEN Expected(PutLoc(doc, entry.loc, Str(Translation(entry, language))),
                           file_path, Tail(tm))
             ELSE Expected(doc, file_path, Tail(tm))

\* C1: Round-trip.  After a patch run on the project the translation map was
\* extracted from, every translated entry's text is at the place the
\* extraction read the original from, and every other node of every document
\* is as it was before the run.
C1_RoundTrip ==
    (PatchEnded /\ pre = origin) =>
        /\ \A i \in 1..Len(translation_map) :
              LET entry == translation_map[i]
              IN  Translated(entry, language) =>
                    ReadLoc(disk[entry.context.file], entry.loc)
                      = Str(Translation(entry, language))
        /\ \A f \in DOMAIN disk : disk[f] = Expected(pre[f], f, translation_map)

\* C2: Failure isolation.  When a patch run has ended and the patch of one
\* file failed, every other file with a translation has been patched and saved.
C2_FailureIsolation ==
    (PatchEnded /\ Failed # {}) =>
        \A f \in DOMAIN run : f \notin Failed => run[f].state = "saved"

\* C3: Entries are never deleted.  No step removes a fingerprint from the
\* persisted translation map.
C3_NeverDeleted ==
    [][strings.exists =>
         Fingerprints(strings.tm) \subseteq Fingerprints(strings'.tm)]_vars

\* two argument tuples differ in exactly one of the five components
DifferInOne(a, b) ==
    Cardinality({c \in {"text", "file_path", "context_path", "event_id", "map_id"} :
                   a[c] # b[c]}) = 1

\* C4: Fingerprint sensitivity.  Two calls whose arguments differ in exactly
\* one component (an absent id differs from every string, "None" included)
\* return different fingerprints.
C4_Sensitivity ==
    (probe.fa # NoPrint /\ probe.fb # NoPrint /\ DifferInOne(probe.a, probe.b))
        => probe.fa # probe.fb

\* C5: No patch is silently skipped.  While a patch run is going on, a file
\* that was saved holds every translated text handed to its patch at the
\* place the path addresses, and a file whose patch failed has an error
\* reported.
C5_NoSilentSkip ==
    pc \in {"next_file", "writing"} =>
        \A f \in DOMAIN run :
            /\ run[f].state = "saved" =>
                 \A i \in 1..Len(run[f].patches) :
                    Addressed(f, disk[f], run[f].patches[i].path)
                      = Str(run[f].patches[i].text)
            /\ run[f].state = "failed" => reported # NoError

\* C6: Completion status.  A patch run in which a file failed ends with a
\* non-zero status, and one in which no file failed ends with status zero.
C6_CompletionStatus ==
    PatchEnded => ((Failed # {}) <=> (exit_status.code # 0))

\* patch_file is about to apply the path write at the head of todo
WriteStep == pc = "writing" /\ todo # <<>> /\ ~IsMisc(cur)

\* b is a with at most the node at the path replaced: down the path every
\* mapping keeps its keys and every sequence its length, and every node off
\* the path is the same
RECURSIVE Frame(_, _, _)
Frame(a, b, components) ==
    IF components = <<>> THEN TRUE
    ELSE LET c == Component(Head(components))
         IN  /\ a.k = b.k
             /\ a.k \in {"map", "seq"}
             /\ a.k = "map" =>
                  /\ DOMAIN b.fields = DOMAIN a.fields
                  /\ DictKey(c) \in DOMAIN a.fields
                  /\ \A x \in DOMAIN a.fields \ {DictKey(c)} : b.fields[x] = a.fields[x]
                  /\ Frame(a.fields[DictKey(c)], b.fields[DictKey(c)], Tail(components))
             /\ a.k = "seq" =>
                  /\ Len(b.items) = Len(a.items)
                  /\ c.int /\ c.n < Len(a.items)
                  /\ \A i \in 1..Len(a.items) : i # c.n + 1 => b.items[i] = a.items[i]
                  /\ Frame(a.items[c.n + 1], b.items[c.n + 1], Tail(components))

\* C7: Write frame.  A path write that succeeds leaves the document as it
\* was but for the value at the path, which is the value written.
C7_WriteFrame ==
    [][(WriteStep /\ pc' = "writing") =>
          /\ Frame(data, data', split(Head(todo).path))
          /\ ReadLoc(data', Locate(Head(todo).path)) = Str(Head(todo).text)]_vars

\* the items of the import's rows that carry a translation, in order
Handled(rows) ==
    Flatten([i \in 1..Len(rows) |->
               IF rows[i].text = NaN THEN <<>> ELSE rows[i].fps])
IsUnknown(fingerprint) == fingerprint \notin Fingerprints(strings.tm)

\* C8: Unknown-fingerprint merge.  While an import merges its sheet, the map
\* has the fingerprints of the strings file and no other, every unknown
\* fingerprint met so far is counted in `skipped` and printed as a warning,
\* and every known fingerprint met so far, also after an unknown one, has
\* its translation.
C8_UnknownMerge ==
    pc = "import" =>
        /\ Fingerprints(translation_map) = Fingerprints(strings.tm)
        /\ warnings = SelectSeq(Handled(seen), IsUnknown)
        /\ skipped = Len(warnings)
        /\ processed + skipped = Len(Handled(seen))
        /\ \A f \in Range(Handled(seen)) :
              ~IsUnknown(f) =>
                 Translated(translation_map[Position(translation_map, f)], language)

\* an import has skipped an unknown fingerprint and then merged a known one
C8_Witness ==
    /\ pc = "import" /\ skipped > 0 /\ processed > 0
    /\ \E i \in 1..Len(Handled(seen)) : \E j \in 1..Len(Handled(seen)) :
          i < j /\ IsUnknown(Handled(seen)[i]) /\ ~IsUnknown(Handled(seen)[j])

\* walking the path, a segment of digits meets a sequence that has no
\* element of that index
RECURSIVE OutOfRange(_, _)
OutOfRange(doc, components) ==
    IF components = <<>> THEN FALSE
    ELSE LET c == Component(Head(components))
         IN  IF doc.k = "seq" /\ c.int
             THEN c.n >= Len(doc.items)
                  \/ OutOfRange(doc.items[c.n + 1], Tail(components))
             ELSE IF doc.k = "map" /\ DictKey(c) \in DOMAIN doc.fields
             THEN OutOfRange(doc.fields[DictKey(c)], Tail(components))
             ELSE FALSE

\* C9: Out-of-range index.  A path write with an index past the end of the
\* sequence it addresses fails with IndexError, which main reports; the
\* document in memory and the files are left as they were.
C9_OutOfRange ==
    [][(WriteStep /\ OutOfRange(data, split(Head(todo).path))) =>
          /\ pc' = "idle" /\ reported' = "IndexError"
          /\ run'[cur].state = "failed"
          /\ data' = data /\ disk' = disk]_vars

\* a patch run has ended on a path write with an index out of range
C9_Witness ==
    /\ PatchEnded /\ reported = "IndexError" /\ todo # <<>>
    /\ OutOfRange(data, split(Head(todo).path))

Opens(file_path, mode) ==
    {i \in 1..Len(opens) : opens[i].file = file_path /\ opens[i].mode = mode}

\* C10 as stated: when a patch run has ended, each of its files was opened
\* once for reading and once for writing, after all of its path writes.
C10_OpenedOnce ==
    PatchEnded =>
        \A f \in DOMAIN run :
            /\ Cardinality(Opens(f, "r")) = 1
            /\ Cardinality(Opens(f, "w")) = 1
            /\ \A i \in Opens(f, "w") : opens[i].applied = Len(run[f].patches)

\* C10 as amended: a file of a patch run is opened at most once for reading
\* and at most once for writing, for writing only after it was read and all
\* of its path writes were applied; a file whose patch ended without error
\* was opened exactly once for each, and a file whose patch failed was not
\* opened for writing.
C10_GroupedPatch ==
    /\ \A i \in 1..Len(opens) : opens[i].file \in DOMAIN run
    /\ \A f \in DOMAIN run :
          /\ Cardinality(Opens(f, "r")) <= 1
          /\ Cardinality(Opens(f, "w")) <= 1
          /\ \A i \in Opens(f, "w") :
                /\ \E j \in Opens(f, "r") : j < i
                /\ opens[i].applied = Len(run[f].patches)
          /\ run[f].state = "saved" =>
                Cardinality(Opens(f, "r")) = 1 /\ Cardinality(Opens(f, "w")) = 1
          /\ run[f].state = "failed" => Opens(f, "w") = {}

\* a file with two patches was saved, and another file's patch failed on an
\* index out of range
C10_Witness ==
    /\ PatchEnded
    /\ \E f \in DOMAIN run :
          /\ run[f].state = "saved" /\ Len(run[f].patches) >= 2
          /\ Cardinality(Opens(f, "r")) = 1 /\ Cardinality(Opens(f, "w")) = 1
    /\ \E f \in DOMAIN run : run[f].state = "failed" /\ Opens(f, "w") = {}

\* what a translation map records, whatever the order of its entries and
\* their translations
Recorded(tm) ==
    {[fp |-> tm[i].fp, original |-> tm[i].original, context |-> tm[i].context] :
        i \in 1..Len(tm)}

\* two translation maps have the same fingerprints, one entry for each, and
\* the same original text and context for every entry
SameRecord(a, b) ==
    /\ Fingerprints(a) = Fingerprints(b)
    /\ Len(a) = Len(b)
    /\ Recorded(a) = Recorded(b)

\* the step records the 5-tuple that the call before it recorded
RecordsAgain ==
    /\ seen # <<>> /\ Len(seen') = Len(seen) + 1
    /\ seen'[Len(seen')] = seen[Len(seen)]

\* C11: Idempotent record.  Recording the 5-tuple that was just recorded
\* leaves the fingerprints of the map, and the original text and context of
\* every entry, as they were; extracting again from the same project gives a
\* map equal to the persisted one, up to order and translations.
C11_IdempotentRecord ==
    [][/\ RecordsAgain => SameRecord(translation_map, translation_map')
       /\ (strings.exists /\ cmds' = cmds + 1) =>
              SameRecord(strings.tm, strings'.tm)]_vars

\* the project was extracted twice, and then a 5-tuple whose fingerprint the
\* extraction had recorded was recorded twice in a row
C11_Witness ==
    /\ cmds >= 2 /\ strings.exists /\ Len(seen) >= 2
    /\ seen[Len(seen)] = seen[Len(seen) - 1]
    /\ Fingerprint(seen[Len(seen)]) \in Fingerprints(strings.tm)

\* C12: Unambiguous hash input.  Two calls with different 5-tuples, none of
\* them with the string "None" for an id, join their components to different
\* strings, and so return different fingerprints.
C12_Unambiguous ==
    (probe.fa # NoPrint /\ probe.fb # NoPrint /\ probe.a # probe.b)
        => probe.fa # probe.fb

\* the document after every path write of the file, in order (each of them
\* ending without error)
RECURSIVE AllApplied(_, _, _)
AllApplied(file_path, doc, patches) ==
    IF patches = <<>> THEN doc
    ELSE LET w == apply_patch(file_path, doc, Head(patches))
         IN  IF w.ok THEN AllApplied(file_path, w.v, Tail(patches)) ELSE Missing

\* a patch run is going on or has just ended
InPatchRun == pc \in {"next_file", "writing"} \/ PatchEnded

\* C13: Per-file all-or-nothing patch.  During and after a patch run, a file
\* whose patch failed, or has not reached its save, is on disk as it was
\* before the run, whatever was written in memory; a saved file is the
\* document with all of its path writes applied; a file the run does not
\* patch is as it was.
C13_AllOrNothing ==
    InPatchRun =>
        \A f \in DOMAIN disk :
            IF f \in DOMAIN run /\ run[f].state = "saved"
            THEN disk[f] = json_roundtrip(AllApplied(f, pre[f], run[f].patches))
            ELSE disk[f] = pre[f]

\* a path write of a file failed after an earlier one of the same file had
\* changed the document in memory
C13_Witness ==
    /\ PatchEnded /\ cur \in Failed
    /\ run[cur].applied >= 1 /\ todo # <<>>
    /\ data # pre[cur] /\ disk[cur] = pre[cur]

====
